---- MODULE Spec2Model ----
(***************************************************************************)
(* Tokenizer and expression parser of the benchpress template compiler     *)
(* (compiler/src/parse/tokens.rs, compiler/src/parse/expression.rs).       *)
(*                                                                         *)
(* A source text is a sequence of one-character strings.  A Span is the    *)
(* pair (offset, fragment) of a LocatedSpan: the byte offset in the source *)
(* and the text it covers.  A parser is an operator P(s, i): s is the text *)
(* the parser can see (the source up to the end of the slice it was        *)
(* given) and i the offset it starts at; it returns Fail or                *)
(* [ok |-> TRUE, rest |-> offset after what it consumed, out |-> value].   *)
(***************************************************************************)
EXTENDS Integers, Sequences, FiniteSets, TLC

VARIABLES src, raw, input, index, tokens, warnings, skipped, escaped, pc, out

vars == <<src, raw, input, index, tokens, warnings, skipped, escaped, pc, out>>

----------------------------------------------------------------------------
(* Spans *)

\* input.slice(a..b) of the source text s: offsets are absolute
Slice(s, a, b) == [offset |-> a, fragment |-> SubSeq(s, a + 1, b)]

\* Span::new_extra(text, extra): a span of its own, at offset 0
new_extra(text) == [offset |-> 0, fragment |-> text]

SpanLen(sp) == Len(sp.fragment)

SpanEnd(sp) == sp.offset + Len(sp.fragment)

\* LocatedSpan's PartialEq: offset and fragment
SpanEq(a, b) == a.offset = b.offset /\ a.fragment = b.fragment

Fail == [ok |-> FALSE]

Ok(rest, value) == [ok |-> TRUE, rest |-> rest, out |-> value]

----------------------------------------------------------------------------
(* Character classes *)

Upper == {"A", "B", "C", "D", "E", "F", "G", "H", "I", "J", "K", "L", "M",
          "N", "O", "P", "Q", "R", "S", "T", "U", "V", "W", "X", "Y", "Z"}

Lower == {"a", "b", "c", "d", "e", "f", "g", "h", "i", "j", "k", "l", "m",
          "n", "o", "p", "q", "r", "s", "t", "u", "v", "w", "x", "y", "z"}

Digit == {"0", "1", "2", "3", "4", "5", "6", "7", "8", "9"}

\* alphanumeric1 accepts ASCII letters and digits
Alphanumeric == Upper \cup Lower \cup Digit

\* is_a("_-:@")
IdentPunct == {"_", "-", ":", "@"}

\* the whitespace `ws` skips
Whitespace == {" ", "\t", "\n", "\r"}

\* continuation bytes of a multi-byte UTF-8 character: not a char boundary
Continuation == {"A9", "A0"}

----------------------------------------------------------------------------
(* nom primitives *)

\* The combinators bind the result r of a parser to v: it is computed once.

\* match r { Ok(..) => OkArm(r), Err(Error) => errArm }
Match(r, OkArm(_), errArm) ==
    CHOOSE x \in { IF v.ok THEN OkArm(v) ELSE errArm : v \in {r} } : TRUE

\* a parser after another: the error of the first is the error of both
Then(r, Cont(_)) ==
    CHOOSE x \in { IF v.ok THEN Cont(v) ELSE Fail : v \in {r} } : TRUE

\* alt((p, q)) on the results of p and of q
OrElse(r, q) ==
    CHOOSE x \in { IF v.ok THEN v ELSE q : v \in {r} } : TRUE

\* tag(t)
tag(t, s, i) ==
    IF i + Len(t) <= Len(s) /\ SubSeq(s, i + 1, i + Len(t)) = t
    THEN Ok(i + Len(t), Slice(s, i, i + Len(t)))
    ELSE Fail

RECURSIVE AltTags(_, _, _, _)
\* alt((tag(ts[k]), tag(ts[k+1]), ...)): the first tag that matches
AltTags(ts, k, s, i) ==
    IF k > Len(ts) THEN Fail
    ELSE OrElse(tag(ts[k], s, i), AltTags(ts, k + 1, s, i))

RECURSIVE RunEnd(_, _, _)
\* the offset after the longest run of characters of `set` starting at i
RunEnd(s, i, set) ==
    IF i < Len(s) /\ s[i + 1] \in set THEN RunEnd(s, i + 1, set) ELSE i

RECURSIVE RunEndNot(_, _, _)
\* the offset after the longest run of characters outside `set` starting at i
RunEndNot(s, i, set) ==
    IF i < Len(s) /\ s[i + 1] \notin set THEN RunEndNot(s, i + 1, set) ELSE i

\* a parser that takes everything up to offset e, and fails if that is nothing
Run1(s, i, e) == IF e > i THEN Ok(e, Slice(s, i, e)) ELSE Fail

\* multispace0: the offset after any run of whitespace
multispace0(s, i) == RunEnd(s, i, Whitespace)

\* ws(tag(t)): whitespace, the tag, whitespace
ws_tag(t, s, i) ==
    Then(tag(t, s, multispace0(s, i)), LAMBDA r : Ok(multispace0(s, r.rest), r.out))

RECURSIVE take_until(_, _, _, _)
\* take_until(t) from offset i, looking at offset k
take_until(t, s, i, k) ==
    IF k + Len(t) > Len(s) THEN Fail
    ELSE IF SubSeq(s, k + 1, k + Len(t)) = t THEN Ok(k, Slice(s, i, k))
    ELSE take_until(t, s, i, k + 1)

----------------------------------------------------------------------------
(* expression.rs *)

\* Expression::span()
ExprSpan(e) == e.span

\* Expression::path_from_span
path_from_span(span) == [kind |-> "Path", span |-> span, path |-> <<span>>]

RECURSIVE StringBody(_, _)
\* many0_count(alt((preceded(tag("\\"), take(1)), is_not("\\\"")))): the offset after it
StringBody(s, i) ==
    IF i + 1 < Len(s) /\ s[i + 1] = "\\"
    THEN StringBody(s, RunEnd(s, i + 2, Continuation))
    ELSE IF i < Len(s) /\ s[i + 1] \notin {"\\", "\""}
    THEN StringBody(s, RunEndNot(s, i, {"\\", "\""}))
    ELSE i

string_literal(s, i) ==
    Then(tag(<<"\"">>, s, i), LAMBDA open :
    Then(tag(<<"\"">>, s, StringBody(s, open.rest)), LAMBDA close :
    Ok(close.rest, [kind |-> "StringLiteral", span |-> Slice(s, i, close.rest)])))

\* res.ends_with("--") && rest.starts_with('>')
EndsComment(s, res, rest) ==
    /\ Len(res.fragment) >= 2
    /\ SubSeq(res.fragment, Len(res.fragment) - 1, Len(res.fragment)) = <<"-", "-">>
    /\ rest < Len(s)
    /\ s[rest + 1] = ">"

\* mutant of identifier: the run is returned whole, `--` before `>` too
identifierNoBackup(s, i) == Run1(s, i, RunEnd(s, i, Alphanumeric \cup IdentPunct))

identifier(s, i) ==
    Then(Run1(s, i, RunEnd(s, i, Alphanumeric \cup IdentPunct)), LAMBDA r :
    IF EndsComment(s, r.out, r.rest)
    THEN Ok(r.rest - 2, Slice(s, i, r.rest - 2))
    ELSE r)

\* the six keywords of path, in the order they are tried
Keywords == << <<"@", "r", "o", "o", "t">>,
               <<"@", "k", "e", "y">>,
               <<"@", "i", "n", "d", "e", "x">>,
               <<"@", "v", "a", "l", "u", "e">>,
               <<"@", "f", "i", "r", "s", "t">>,
               <<"@", "l", "a", "s", "t">> >>

ScopeTags == << <<".", "/">>, <<".", ".", "/">> >>

RECURSIVE ScopeMarkers(_, _, _)
\* many0(map(alt((tag("./"), tag("../"))), PathPart::Part))
ScopeMarkers(s, i, acc) ==
    Match(AltTags(ScopeTags, 1, s, i),
          LAMBDA r : ScopeMarkers(s, r.rest, Append(acc, r.out)),
          Ok(i, acc))

RECURSIVE IdentList(_, _, _)
\* the loop of separated_list1(tag("."), map(identifier, PathPart::Part))
IdentList(s, i, acc) ==
    Match(tag(<<".">>, s, i),
          LAMBDA sep : Match(identifier(s, sep.rest),
                             LAMBDA id : IdentList(s, id.rest, Append(acc, id.out)),
                             Ok(i, acc)),
          Ok(i, acc))

\* the second alternative of path: scope markers, then identifiers between dots
DottedPath(s, i) ==
    Then(ScopeMarkers(s, i, <<>>), LAMBDA first :
    Then(identifier(s, first.rest), LAMBDA id :
    Then(IdentList(s, id.rest, <<id.out>>), LAMBDA second :
    Ok(second.rest, [kind |-> "Path",
                     span |-> Slice(s, i, second.rest),
                     path |-> first.out \o second.out]))))

\* mutant of path: the dotted path is tried before the keywords
pathDottedFirst(s, i) ==
    OrElse(DottedPath(s, i),
           Then(AltTags(Keywords, 1, s, i),
                LAMBDA kw : Ok(kw.rest, path_from_span(kw.out))))

path(s, i) ==
    OrElse(Then(AltTags(Keywords, 1, s, i),
                LAMBDA kw : Ok(kw.rest, path_from_span(kw.out))),
           DottedPath(s, i))

RECURSIVE expression(_, _)
RECURSIVE negative(_, _)
RECURSIVE ws_expression(_, _)
RECURSIVE HelperArgs(_, _, _)
RECURSIVE helper(_, _)
RECURSIVE LegacyArgs(_, _, _)
RECURSIVE legacy_helper(_, _)

\* mutant of negative: the span is the span of the negated expression
negativeInnerSpan(s, i) ==
    Then(ws_tag(<<"!">>, s, i), LAMBDA bang :
    Then(expression(s, bang.rest), LAMBDA e :
    Ok(e.rest, [kind |-> "Negative", span |-> ExprSpan(e.out), expr |-> e.out])))

negative(s, i) ==
    Then(ws_tag(<<"!">>, s, i), LAMBDA bang :
    Then(expression(s, bang.rest), LAMBDA e :
    Ok(e.rest, [kind |-> "Negative", span |-> Slice(s, i, e.rest), expr |-> e.out])))

\* ws(expression)
ws_expression(s, i) ==
    Then(expression(s, multispace0(s, i)),
         LAMBDA e : Ok(multispace0(s, e.rest), e.out))

\* separated_list0(tag(","), ws(expression)): acc is the list so far and i the
\* offset after it; no separator comes before the first element
HelperArgs(s, i, acc) ==
    Match(IF Len(acc) = 0 THEN Ok(i, <<>>) ELSE tag(<<",">>, s, i),
          LAMBDA sep : Match(ws_expression(s, sep.rest),
                             LAMBDA e : HelperArgs(s, e.rest, Append(acc, e.out)),
                             Ok(i, acc)),
          Ok(i, acc))

helper(s, i) ==
    Then(identifier(s, i), LAMBDA name :
    Then(tag(<<"(">>, s, name.rest), LAMBDA open :
    Then(HelperArgs(s, open.rest, <<>>), LAMBDA args :
    Then(tag(<<")">>, s, args.rest), LAMBDA close :
    Ok(close.rest, [kind |-> "Helper",
                    span |-> Slice(s, i, close.rest),
                    name |-> name.out,
                    args |-> args.out])))))

\* separated_list0(ws(tag(",")), expression)
LegacyArgs(s, i, acc) ==
    Match(IF Len(acc) = 0 THEN Ok(i, <<>>) ELSE ws_tag(<<",">>, s, i),
          LAMBDA sep : Match(expression(s, sep.rest),
                             LAMBDA e : LegacyArgs(s, e.rest, Append(acc, e.out)),
                             Ok(i, acc)),
          Ok(i, acc))

\* mutant of ImplicitValue: the span is a span of its own, not in the source
ImplicitValueUnlocated(span) ==
    [kind |-> "Path",
     span |-> new_extra(<<>>),
     path |-> <<new_extra(<<"@", "v", "a", "l", "u", "e">>)>>]

\* args.unwrap_or_else(..): the implicit `@value` of a legacy helper without args
ImplicitValue(span) ==
    [kind |-> "Path",
     span |-> [offset |-> SpanEnd(span), fragment |-> <<>>],
     path |-> <<new_extra(<<"@", "v", "a", "l", "u", "e">>)>>]

\* opt(preceded(ws(tag(",")), separated_list0(ws(tag(",")), expression)))
OptLegacyArgs(s, i) ==
    Match(ws_tag(<<",">>, s, i),
          LAMBDA comma : Then(LegacyArgs(s, comma.rest, <<>>),
                              LAMBDA list : Ok(list.rest, [some |-> TRUE, args |-> list.out])),
          Ok(i, [some |-> FALSE]))

\* mutant of LegacyHelper: an empty argument list gets the implicit `@value` too
LegacyHelperEmptyList(span, name, args) ==
    [kind |-> "LegacyHelper",
     span |-> span,
     name |-> name,
     args |-> IF args.some /\ Len(args.args) > 0 THEN args.args
              ELSE <<ImplicitValue(span)>>]

\* the closure of legacy_helper
LegacyHelper(span, name, args) ==
    [kind |-> "LegacyHelper",
     span |-> span,
     name |-> name,
     args |-> IF args.some THEN args.args ELSE <<ImplicitValue(span)>>]

legacy_helper(s, i) ==
    Then(tag(<<"f", "u", "n", "c", "t", "i", "o", "n", ".">>, s, i), LAMBDA fn :
    Then(identifier(s, fn.rest), LAMBDA name :
    Then(OptLegacyArgs(s, name.rest), LAMBDA args :
    Ok(args.rest, LegacyHelper(Slice(s, i, args.rest), name.out, args.out)))))

\* mutant of expression: path is tried before helper
expressionPathFirst(s, i) ==
    OrElse(negative(s, i),
    OrElse(legacy_helper(s, i),
    OrElse(path(s, i),
    OrElse(string_literal(s, i),
           helper(s, i)))))

\* alt((negative, legacy_helper, helper, string_literal, path))
expression(s, i) ==
    OrElse(negative(s, i),
    OrElse(legacy_helper(s, i),
    OrElse(helper(s, i),
    OrElse(string_literal(s, i),
           path(s, i)))))

----------------------------------------------------------------------------
(* tokens.rs: the ten token recognizers *)

\* Token::span()
TokenSpan(t) == t.span

\* consumed(delimited(tag(open), ws(expression), tag(close)))
Interp(kind, open, close, s, i) ==
    Then(tag(open, s, i), LAMBDA o :
    Then(ws_expression(s, o.rest), LAMBDA e :
    Then(tag(close, s, e.rest), LAMBDA c :
    Ok(c.rest, [kind |-> kind, span |-> Slice(s, i, c.rest), expr |-> e.out]))))

\* consumed(delimited(pair(tag(open), ws(tag(word))), ws(expression), tag(close)))
Block(kind, open, word, close, s, i) ==
    Then(tag(open, s, i), LAMBDA o :
    Then(ws_tag(word, s, o.rest), LAMBDA w :
    Then(ws_expression(s, w.rest), LAMBDA e :
    Then(tag(close, s, e.rest), LAMBDA c :
    Ok(c.rest, [kind |-> kind, span |-> Slice(s, i, c.rest), subject |-> e.out])))))

\* recognize(delimited(tag(open), ws(tag(word)), tag(close)))
Bare(kind, open, word, close, s, i) ==
    Then(tag(open, s, i), LAMBDA o :
    Then(ws_tag(word, s, o.rest), LAMBDA w :
    Then(tag(close, s, w.rest), LAMBDA c :
    Ok(c.rest, [kind |-> kind, span |-> Slice(s, i, c.rest)]))))

Brace1 == <<"{">>
Brace2 == <<"{", "{">>
Brace3 == <<"{", "{", "{">>
Close1 == <<"}">>
Close2 == <<"}", "}">>
Close3 == <<"}", "}", "}">>
CommentOpen == <<"<", "!", "-", "-">>
CommentClose == <<"-", "-", ">">>

interp_escaped(s, i) == Interp("InterpEscaped", Brace1, Close1, s, i)

\* mutant of interp_raw: a single closing brace
interp_rawOneClose(s, i) == Interp("InterpRaw", Brace2, Close1, s, i)

interp_raw(s, i) == Interp("InterpRaw", Brace2, Close2, s, i)

new_each(s, i) == Block("Each", Brace3, <<"e", "a", "c", "h">>, Close3, s, i)

new_if(s, i) == Block("If", Brace3, <<"i", "f">>, Close3, s, i)

new_else(s, i) == Bare("Else", Brace3, <<"e", "l", "s", "e">>, Close3, s, i)

new_end(s, i) == Bare("End", Brace3, <<"e", "n", "d">>, Close3, s, i)

legacy_begin(s, i) ==
    Block("LegacyBegin", CommentOpen, <<"B", "E", "G", "I", "N">>, CommentClose, s, i)

\* mutant of ImplicitRoot: the span is always at the end of the helper
ImplicitRootAtEnd(span, args) ==
    [kind |-> "Path",
     span |-> [offset |-> SpanEnd(span), fragment |-> <<>>],
     path |-> <<new_extra(<<"@", "r", "o", "o", "t">>)>>]

\* the implicit `@root` first argument of a legacy IF helper
ImplicitRoot(span, args) ==
    [kind |-> "Path",
     span |-> IF Len(args) = 0
              THEN [offset |-> SpanEnd(span), fragment |-> <<>>]
              ELSE [offset |-> ExprSpan(args[1]).offset, fragment |-> <<>>],
     path |-> <<new_extra(<<"@", "r", "o", "o", "t">>)>>]

\* mutant of WithRoot: a LegacyHelper that is negated gets `@root` too
WithRootNegated(subject) ==
    IF subject.kind = "LegacyHelper"
    THEN [subject EXCEPT
            !.args = <<ImplicitRoot(subject.span, subject.args)>> \o subject.args]
    ELSE IF subject.kind = "Negative" /\ subject.expr.kind = "LegacyHelper"
    THEN [subject EXCEPT
            !.expr.args = <<ImplicitRoot(subject.expr.span, subject.expr.args)>>
                          \o subject.expr.args]
    ELSE subject

\* the closure of legacy_if: a LegacyHelper subject gets `@root` as args[0]
WithRoot(subject) ==
    IF subject.kind = "LegacyHelper"
    THEN [subject EXCEPT
            !.args = <<ImplicitRoot(subject.span, subject.args)>> \o subject.args]
    ELSE subject

legacy_if(s, i) ==
    Then(Block("LegacyIf", CommentOpen, <<"I", "F">>, CommentClose, s, i), LAMBDA r :
    Ok(r.rest, [r.out EXCEPT !.subject = WithRoot(r.out.subject)]))

legacy_else(s, i) ==
    Bare("LegacyElse", CommentOpen, <<"E", "L", "S", "E">>, CommentClose, s, i)

\* what str::trim_end removes
TrimSet == Whitespace \cup {"\f"}

\* U+00A0 in UTF-8, a character of the White_Space property that is not ASCII
Nbsp == <<"C2", "A0">>

RECURSIVE TrimmedLen(_)
\* input.trim_end().len()
TrimmedLen(f) ==
    IF Len(f) > 0 /\ f[Len(f)] \in TrimSet
    THEN TrimmedLen(SubSeq(f, 1, Len(f) - 1))
    ELSE IF Len(f) > 1 /\ SubSeq(f, Len(f) - 1, Len(f)) = Nbsp
    THEN TrimmedLen(SubSeq(f, 1, Len(f) - 2))
    ELSE Len(f)

trim_end(span) ==
    [offset   |-> span.offset,
     fragment |-> SubSeq(span.fragment, 1, TrimmedLen(span.fragment))]

ENDIF == <<"E", "N", "D", "I", "F">>
END == <<"E", "N", "D">>

\* END tried before ENDIF
EndWordsEndFirst == << END, ENDIF >>

\* alt((tag("ENDIF"), tag("END")))
EndWords == << ENDIF, END >>

legacy_end(s, i) ==
    Then(tag(CommentOpen, s, i), LAMBDA o :
    Then(AltTags(EndWords, 1, s, multispace0(s, o.rest)), LAMBDA w :
    Then(take_until(CommentClose, s, multispace0(s, multispace0(s, w.rest)),
                    multispace0(s, multispace0(s, w.rest))), LAMBDA subject :
    Then(tag(CommentClose, s, multispace0(s, subject.rest)), LAMBDA c :
    Ok(c.rest, [kind        |-> "LegacyEnd",
                span        |-> Slice(s, i, c.rest),
                subject_raw |-> trim_end(subject.out)])))))

\* the alternation of token, in the order the recognizers are tried
token(s, i) ==
    OrElse(interp_escaped(s, i),
    OrElse(interp_raw(s, i),
    OrElse(new_each(s, i),
    OrElse(new_if(s, i),
    OrElse(new_else(s, i),
    OrElse(new_end(s, i),
    OrElse(legacy_begin(s, i),
    OrElse(legacy_if(s, i),
    OrElse(legacy_else(s, i),
           legacy_end(s, i))))))))))

----------------------------------------------------------------------------
(* tokens.rs: the scanner *)

\* PATTERNS[p + 1] is pattern p of the source
PATTERNS == << <<"\\", "{", "{", "{">>,
               <<"\\", "{", "{">>,
               <<"\\", "{">>,
               <<"\\", "<", "!", "-", "-">>,
               <<"{">>,
               <<"<", "!", "-", "-">>,
               <<"@", "k", "e", "y">>,
               <<"@", "v", "a", "l", "u", "e">>,
               <<"@", "i", "n", "d", "e", "x">> >>

NoMatch == [found |-> FALSE]

\* the match m, or else the match `other`
FoundOr(m, other) == IF m.found THEN m ELSE other

RECURSIVE FirstPattern(_, _, _, _)
\* MatchKind::LeftmostFirst at offset k: the first pattern that matches there; the
\* start and the end of a match are relative to `from`
FirstPattern(p, s, from, k) ==
    IF p >= Len(PATTERNS) THEN NoMatch
    ELSE Match(tag(PATTERNS[p + 1], s, k),
               LAMBDA r : [found |-> TRUE, pattern |-> p,
                           start |-> k - from, end |-> r.rest - from],
               FirstPattern(p + 1, s, from, k))

RECURSIVE TOKEN_START_find(_, _, _)
\* TOKEN_START.find(input.slice(from..)), looking at offset k of the source
TOKEN_START_find(s, from, k) ==
    IF k >= Len(s) THEN NoMatch
    ELSE FoundOr(FirstPattern(0, s, from, k), TOKEN_START_find(s, from, k + 1))

\* input.is_char_boundary(idx): `inp` is the offset of input in the source
is_char_boundary(s, inp, idx) ==
    \/ idx = 0
    \/ idx = Len(s) - inp
    \/ idx < Len(s) - inp /\ s[inp + idx + 1] \notin Continuation

\* mutant of Bump: index is not stepped
BumpNone(s, inp, idx) == idx

RECURSIVE Bump(_, _, _)
\* while { index += 1; !input.is_char_boundary(index) } {}
Bump(s, inp, idx) ==
    IF is_char_boundary(s, inp, idx + 1) THEN idx + 1 ELSE Bump(s, inp, idx + 1)

Text(span) == [kind |-> "Text", span |-> span]

\* The locals of tokens(): `input` is the offset in the source of the input that
\* remains (its fragment is the source from there on); branch names the branch
\* of the loop body that was taken last, ret is "Err" once an error was returned.
Local(inp, idx, toks, warns, branch, ret) ==
    [input |-> inp, index |-> idx, tokens |-> toks, warnings |-> warns,
     branch |-> branch, ret |-> ret]

\* mutant of PushText: the text is pushed even when it is empty
PushTextAlways(s, st, start) ==
    Append(st.tokens, Text(Slice(s, st.input, st.input + start)))

\* if start > 0 { tokens.push(Token::Text(input.slice(..start))) }
PushText(s, st, start) ==
    IF start > 0
    THEN Append(st.tokens, Text(Slice(s, st.input, st.input + start)))
    ELSE st.tokens

\* mutant of EscapeStep: the escaped opener is dropped with its backslash
EscapeStepDropsOpener(s, st, start, length) ==
    Local(st.input + start + length, 0, PushText(s, st, start),
          st.warnings, "escape", "none")

\* mutant of EscapeStep: index is left at the opener
EscapeStepAtOpener(s, st, start, length) ==
    Local(st.input + start + 1, 0, PushText(s, st, start),
          st.warnings, "escape", "none")

\* patterns 0..=3: an escaped opener at `start`, `length` bytes long
EscapeStep(s, st, start, length) ==
    Local(st.input + start + 1, length - 1, PushText(s, st, start),
          st.warnings, "escape", "none")

\* mutant of KeywordStep: the text before the keyword is not pushed
KeywordStepNoText(s, st, start, end) ==
    Match(expression(SubSeq(s, 1, st.input + end), st.input + start),
          LAMBDA e :
              Local(st.input + end, 0,
                    Append(st.tokens,
                           [kind |-> "InterpEscaped",
                            span |-> Slice(s, st.input + start, st.input + end),
                            expr |-> e.out]),
                    Append(st.warnings, Slice(s, st.input + start, st.input + end)),
                    "keyword", "none"),
          [st EXCEPT !.branch = "keyword", !.ret = "Err"])

\* patterns 6..=8: a bare `@key`, `@value`, `@index` at start..end; a block of
\* warn! calls is one element of warnings
KeywordStep(s, st, start, end) ==
    Match(expression(SubSeq(s, 1, st.input + end), st.input + start),
          LAMBDA e :
              Local(st.input + end, 0,
                    Append(PushText(s, st, start),
                           [kind |-> "InterpEscaped",
                            span |-> Slice(s, st.input + start, st.input + end),
                            expr |-> e.out]),
                    Append(st.warnings, Slice(s, st.input + start, st.input + end)),
                    "keyword", "none"),
          [st EXCEPT !.branch = "keyword", !.ret = "Err"])

\* mutant of RestIsInput: any rest counts as the input
RestIsInputAlways(s, rest, inp) == rest >= inp

\* rest == input, for the rest a recognizer returned
RestIsInput(s, rest, inp) ==
    SpanEq(Slice(s, rest, Len(s)), Slice(s, inp, Len(s)))

\* mutant of OpenerStep: the error of a recognizer is returned
OpenerStepPropagates(s, st, idx) ==
    Match(token(s, st.input + idx),
          LAMBDA r :
              Local(r.rest, 0, Append(PushText(s, st, idx), r.out),
                    st.warnings, "token", "none"),
          [st EXCEPT !.index = idx, !.branch = "skip", !.ret = "Err"])

\* mutant of OpenerStep: a failed opener ends the text before the next character
OpenerStepSplits(s, st, idx) ==
    Match(token(s, st.input + idx),
          LAMBDA r :
              Local(r.rest, 0, Append(PushText(s, st, idx), r.out),
                    st.warnings, "token", "none"),
          Local(st.input + Bump(s, st.input, idx), 0,
                PushText(s, st, Bump(s, st.input, idx)),
                st.warnings, "skip", "none"))

\* patterns 4..=5: an opener at idx, and the match on token(input.slice(index..))
OpenerStep(s, st, idx) ==
    Match(token(s, st.input + idx),
          LAMBDA r :
              IF RestIsInput(s, r.rest, st.input)
              THEN [st EXCEPT !.index = idx, !.branch = "token", !.ret = "Err"]
              ELSE Local(r.rest, 0, Append(PushText(s, st, idx), r.out),
                         st.warnings, "token", "none"),
          [st EXCEPT !.index = Bump(s, st.input, idx), !.branch = "skip"])

\* no tokens found, break out
BreakStep(s, st) == [st EXCEPT !.index = Len(s) - st.input, !.branch = "break"]

\* mutant of Dispatch: pattern 3, the escaped `<!--`, is taken for a keyword
DispatchEscapeRange(s, st, m) ==
    IF ~m.found THEN BreakStep(s, st)
    ELSE IF m.pattern \in 4..5 THEN OpenerStep(s, st, st.index + m.start)
    ELSE IF m.pattern \in 0..2
    THEN EscapeStep(s, st, st.index + m.start, m.end - m.start)
    ELSE KeywordStep(s, st, st.index + m.start, st.index + m.end)

\* the branch of the loop body that the match m of TOKEN_START selects
Dispatch(s, st, m) ==
    IF ~m.found THEN BreakStep(s, st)
    ELSE IF m.pattern \in 4..5 THEN OpenerStep(s, st, st.index + m.start)
    ELSE IF m.pattern \in 0..3
    THEN EscapeStep(s, st, st.index + m.start, m.end - m.start)
    ELSE KeywordStep(s, st, st.index + m.start, st.index + m.end)

\* one iteration of `while index < input.len()`
LoopStep(s, st) ==
    CHOOSE x \in { Dispatch(s, st, m) :
                      m \in {TOKEN_START_find(s, st.input + st.index, st.input + st.index)} } : TRUE

\* the code after the loop
ReturnValue(s, st) ==
    [ret    |-> "Ok",
     rest   |-> Slice(s, Len(s), Len(s)),
     tokens |-> PushText(s, st, st.index)]

RECURSIVE Run(_, _)
Run(s, st) ==
    IF st.ret = "Err" THEN [ret |-> "Err"]
    ELSE IF st.index < Len(s) - st.input THEN Run(s, LoopStep(s, st))
    ELSE ReturnValue(s, st)

\* tokens(input) as a function of the source text
tokens_fn(s) == Run(s, Local(0, 0, <<>>, <<>>, "start", "none"))

----------------------------------------------------------------------------
(* Source texts *)

RECURSIVE Flatten(_)
\* the concatenation of a sequence of pieces of text
Flatten(cs) == IF Len(cs) = 0 THEN <<>> ELSE Head(cs) \o Flatten(Tail(cs))

\* the number of pieces a source text of the scanner is made of, at most
MaxPieces == 3

\* "C3" "A9" are the two bytes of a two-byte character
Pieces == { <<"a">>, <<" ">>, <<"{">>, <<"}">>, <<"\\">>,
            <<"<", "!", "-", "-">>, <<"E", "N", "D", "-", "-", ">">>,
            <<"@", "k", "e", "y">>, <<"@", "v", "a", "l", "u", "e">>,
            <<"{", "a", "}">>, <<"C3", "A9">> }

Texts(pieces, n) == { Flatten(cs) : cs \in UNION { [1..k -> pieces] : k \in 0..n } }

Sp == <<" ">>

\* `{{{ each /abc }}} mid {{{ end }}}`
ExampleFallThrough ==
    Flatten(<<Brace3, Sp, <<"e", "a", "c", "h">>, Sp, <<"/", "a", "b", "c">>, Sp, Close3,
              Sp, <<"m", "i", "d">>, Sp, Brace3, Sp, <<"e", "n", "d">>, Sp, Close3>>)

\* `before {{{ each abc }}} mid {{{ end }}}`; escaped, it is the source text
\* `before \{{{ each abc }}} mid \{{{ end }}}` of test_tokens
ExampleBlock ==
    Flatten(<<<<"b", "e", "f", "o", "r", "e">>, Sp, Brace3, Sp, <<"e", "a", "c", "h">>, Sp,
              <<"a", "b", "c">>, Sp, Close3, Sp, <<"m", "i", "d">>, Sp,
              Brace3, Sp, <<"e", "n", "d">>, Sp, Close3>>)

Examples == {ExampleFallThrough, ExampleBlock}

TokInputs == Texts(Pieces, MaxPieces) \cup Examples

RECURSIVE Escape(_, _)
\* s from offset i on, with a backslash put before every opener `{` and `<!--`
Escape(s, i) ==
    IF i >= Len(s) THEN <<>>
    ELSE IF s[i + 1] = "{" THEN <<"\\", "{">> \o Escape(s, i + 1)
    ELSE IF tag(CommentOpen, s, i).ok THEN <<"\\">> \o CommentOpen \o Escape(s, i + 4)
    ELSE <<s[i + 1]>> \o Escape(s, i + 1)

\* the openers of a directive, the longest first
Openers == <<Brace3, Brace2, Brace1, CommentOpen>>

RECURSIVE EscapeOpeners(_, _)
\* s from offset i on, with a backslash put before every `{{{`, `{{`, `{` and `<!--`
EscapeOpeners(s, i) ==
    IF i >= Len(s) THEN <<>>
    ELSE Match(AltTags(Openers, 1, s, i),
               LAMBDA r : <<"\\">> \o r.out.fragment \o EscapeOpeners(s, r.rest),
               <<s[i + 1]>> \o EscapeOpeners(s, i + 1))

----------------------------------------------------------------------------
(* tokens() as a state machine: one action per branch of the loop body *)

NotReturned == [ret |-> "none"]

Init ==
    /\ raw \in TokInputs
    /\ src \in {raw, Escape(raw, 0), EscapeOpeners(raw, 0)}
    /\ input = 0
    /\ index = 0
    /\ tokens = <<>>
    /\ warnings = <<>>
    /\ skipped = {}
    /\ escaped = {}
    /\ pc = "loop"
    /\ out = NotReturned

Cur == Local(input, index, tokens, warnings, "none", "none")

InLoop == pc = "loop" /\ index < Len(src) - input

\* the loop body took `branch` and left the locals st; an action binds st to the
\* result of the iteration, which is computed once
Take(branch, st) ==
    /\ st.branch = branch
    /\ input' = st.input
    /\ index' = st.index
    /\ tokens' = st.tokens
    /\ warnings' = st.warnings
    /\ pc' = IF st.ret = "Err" THEN "done" ELSE "loop"
    /\ out' = IF st.ret = "Err" THEN [ret |-> "Err"] ELSE out
    /\ UNCHANGED <<src, raw>>

\* an opener on which no recognizer matches: step to the next character;
\* skipped records the offsets of the openers that were stepped over
OpenerSkip ==
    /\ InLoop
    /\ (\E st \in {LoopStep(src, Cur)} : Take("skip", st))
    /\ skipped' = skipped \cup
          {input + index + TOKEN_START_find(src, input + index, input + index).start}
    /\ UNCHANGED escaped

\* an opener a recognizer matches: the text before it, and the token
OpenerToken ==
    /\ InLoop
    /\ (\E st \in {LoopStep(src, Cur)} : Take("token", st))
    /\ UNCHANGED <<skipped, escaped>>

\* an escaped opener: the text before the backslash, and the backslash dropped;
\* escaped records the offsets of the backslashes that were dropped
ScanEscape ==
    /\ InLoop
    /\ (\E st \in {LoopStep(src, Cur)} : Take("escape", st))
    /\ escaped' = escaped \cup
          {input + index + TOKEN_START_find(src, input + index, input + index).start}
    /\ UNCHANGED skipped

\* a bare keyword: the text before it, an InterpEscaped and a warning
ScanKeyword ==
    /\ InLoop
    /\ (\E st \in {LoopStep(src, Cur)} : Take("keyword", st))
    /\ UNCHANGED <<skipped, escaped>>

\* no anchor in what remains
Break ==
    /\ InLoop
    /\ (\E st \in {LoopStep(src, Cur)} : Take("break", st))
    /\ UNCHANGED <<skipped, escaped>>

\* the loop is over: the text that remains, and Ok
Return ==
    /\ pc = "loop"
    /\ ~(index < Len(src) - input)
    /\ out' = ReturnValue(src, Cur)
    /\ tokens' = out'.tokens
    /\ pc' = "done"
    /\ UNCHANGED <<src, raw, input, index, warnings, skipped, escaped>>

Next == OpenerSkip \/ OpenerToken \/ ScanEscape \/ ScanKeyword \/ Break \/ Return

Spec == Init /\ [][Next]_vars

\* tokens() runs on: a step that can be taken is taken
SpecLive == Spec /\ WF_vars(Next)

----------------------------------------------------------------------------
(* The parsers called on their own: the expression parsers on the text of an
   expression, the token recognizers on a directive made of one *)

\* the number of pieces the text of an expression is made of, at most
MaxExprPieces == 3

ExprPieces == { <<"a">>, <<".">>, <<" ">>, <<"!">>, <<",">>, <<",", "a">>,
                <<"f", "(">>, <<")">>, <<"\"", "s", "\"">>,
                <<"@", "v", "a", "l", "u", "e">>,
                <<"f", "u", "n", "c", "t", "i", "o", "n", ".", "f">> }

ExprTexts == Texts(ExprPieces, MaxExprPieces)

\* the number of pieces the expression of a directive is made of, at most
MaxSubjectPieces == 3

SubjectPieces == { <<"a">>, <<" ">>, <<"!">>, <<",">>, <<",", "a">>,
                   <<"f", "(", "a", ")">>,
                   <<"@", "v", "a", "l", "u", "e">>,
                   <<"f", "u", "n", "c", "t", "i", "o", "n", ".", "f">> }

SubjectTexts == Texts(SubjectPieces, MaxSubjectPieces)

\* the whitespace put between the parts of a directive
Spaces == {<<>>, Sp}

IfWord == <<"i", "f">>
LegacyIfWord == <<"I", "F">>

\* the delimiters, and the word, of a directive
Form(open, word, close) == [open |-> open, word |-> word, close |-> close]

EscapedForm == Form(Brace1, <<>>, Close1)
RawForm == Form(Brace2, <<>>, Close2)
IfForm == Form(Brace3, IfWord, Close3)
LegacyIfForm == Form(CommentOpen, LegacyIfWord, CommentClose)

Forms == {EscapedForm, RawForm, IfForm, LegacyIfForm}

\* delimiters that do not match: `{{e}` and `{e}}`
Mismatched == {Form(Brace2, <<>>, Close1), Form(Brace1, <<>>, Close2)}

\* open ws word ws e ws close
Wrap(form, w, e) ==
    form.open \o w \o form.word \o (IF form.word = <<>> THEN <<>> ELSE w) \o e \o w \o form.close

\* the state before a parser is called: raw is the text of an expression and src
\* the text the parser is called on, for a pair <<raw, src>> of calls
InitCall(calls) ==
    /\ \E c \in calls : raw = c[1] /\ src = c[2]
    /\ input = 0
    /\ index = 0
    /\ tokens = <<>>
    /\ warnings = <<>>
    /\ skipped = {}
    /\ escaped = {}
    /\ pc = "call"
    /\ out = NotReturned

\* the call of the parser fn returns res
Call(fn, res) ==
    /\ pc = "call"
    /\ out' = [ret |-> "called", fn |-> fn, res |-> res]
    /\ pc' = "done"
    /\ UNCHANGED <<src, raw, input, index, tokens, warnings, skipped, escaped>>

\* the directives made of the text of an expression
Directives ==
    { <<e, Wrap(form, w, e)>> : e \in SubjectTexts, form \in Forms, w \in Spaces }
    \cup { <<e, Wrap(form, <<>>, e)>> : e \in SubjectTexts, form \in Mismatched }

InitToken == InitCall(Directives)

CallToken == Call("token", token(src, 0))

CallTokens == Call("tokens", tokens_fn(src))

CallInterpEscaped == Call("interp_escaped", interp_escaped(src, 0))

CallLegacyIf == Call("legacy_if", legacy_if(src, 0))

\* expression called on the text of the expression alone
CallSubject == Call("subject", expression(raw, 0))

NextToken == CallToken \/ CallTokens \/ CallInterpEscaped \/ CallLegacyIf \/ CallSubject

SpecToken == InitToken /\ [][NextToken]_vars

\* the texts of an expression
Expressions == { <<e, e>> : e \in ExprTexts }

InitExpr == InitCall(Expressions)

CallExpression == Call("expression", expression(src, 0))

CallLegacyHelper == Call("legacy_helper", legacy_helper(src, 0))

NextExpr == CallExpression \/ CallLegacyHelper

SpecExpr == InitExpr /\ [][NextExpr]_vars

\* the number of pieces the text of a path is made of, at most
MaxPathPieces == 4

PathPieces == { <<"a">>, <<"-">>, <<".">>, <<">">>, <<".", "/">>, <<"(">>,
                <<"@", "v", "a", "l", "u", "e">>, <<"@", "r", "o", "o", "t">> }

PathTexts == Texts(PathPieces, MaxPathPieces)

Cond == <<"c", "o", "n", "d">>

\* `<!-- IF cond-->`
ExampleBackup == CommentOpen \o Sp \o LegacyIfWord \o Sp \o Cond \o CommentClose

\* the texts of a path, and the legacy IF whose subject ends at `-->`
Paths == { <<e, e>> : e \in PathTexts } \cup { <<Cond, ExampleBackup>> }

InitPath == InitCall(Paths)

CallPath == Call("path", path(src, 0))

CallIdentifier == Call("identifier", identifier(src, 0))

NextPath == CallPath \/ CallIdentifier \/ CallExpression \/ CallLegacyIf

SpecPath == InitPath /\ [][NextPath]_vars

\* the number of pieces the subject of a legacy IF or BEGIN is made of, at most
MaxRootPieces == 3

RootPieces == { <<"a">>, <<" ">>, <<"!">>, <<",">>, <<",", "a">>, <<"f", "(">>, <<")">>,
                <<"f", "u", "n", "c", "t", "i", "o", "n", ".", "f">> }

RootTexts == Texts(RootPieces, MaxRootPieces)

BeginWord == <<"B", "E", "G", "I", "N">>

LegacyBeginForm == Form(CommentOpen, BeginWord, CommentClose)

\* the legacy IF and the legacy BEGIN of a subject
RootDirectives ==
    { <<e, Wrap(form, w, e)>> :
        e \in RootTexts, form \in {LegacyIfForm, LegacyBeginForm}, w \in Spaces }

InitRoot == InitCall(RootDirectives)

CallLegacyBegin == Call("legacy_begin", legacy_begin(src, 0))

NextRoot == CallLegacyIf \/ CallLegacyBegin \/ CallToken

SpecRoot == InitRoot /\ [][NextRoot]_vars

\* the number of pieces the text after END is made of, at most
MaxEndPieces == 3

EndPieces == { <<"x">>, <<" ">>, <<"-">>, <<">">>, <<"(">>, <<"I", "F">>, Nbsp }

EndTexts == Texts(EndPieces, MaxEndPieces)

\* what follows the directive: nothing, or a second `-->`
Tails == {<<>>, Sp \o CommentClose}

\* `<!--` w1 word w2 x `-->` tail
EndText(w1, word, w2, x, tail) ==
    CommentOpen \o w1 \o word \o w2 \o x \o CommentClose \o tail

Ends ==
    { <<x, EndText(w1, word, w2, x, tail)>> :
        x \in EndTexts, w1 \in Spaces, word \in {ENDIF, END}, w2 \in Spaces, tail \in Tails }

InitEnd == InitCall(Ends)

CallLegacyEnd == Call("legacy_end", legacy_end(src, 0))

CallEndToken == Call("token", token(src, 0))

NextEnd == CallLegacyEnd \/ CallEndToken

SpecEnd == InitEnd /\ [][NextEnd]_vars

----------------------------------------------------------------------------
(* Properties of tokens() *)

Start(t) == t.span.offset

End(t) == SpanEnd(t.span)

\* the span covers the bytes of the source at its offset
InSource(span) == span.fragment = SubSeq(src, span.offset + 1, SpanEnd(span))

\* offset p holds a backslash directly before an opener
EscapeBackslashAt(p) ==
    /\ p + 1 < Len(src)
    /\ src[p + 1] = "\\"
    /\ \/ src[p + 2] = "{"
       \/ tag(CommentOpen, src, p + 1).ok

\* where the token before ts[k] ends
PrevEnd(ts, k) == IF k = 1 THEN 0 ELSE End(ts[k - 1])

\* ts[k] begins where the token before it ends, or one escape backslash later
Follows(ts, k) ==
    \/ Start(ts[k]) = PrevEnd(ts, k)
    \/ Start(ts[k]) = PrevEnd(ts, k) + 1 /\ EscapeBackslashAt(PrevEnd(ts, k))

\* the text of ts[k], after the backslash that was dropped before it, if any
Reinserted(ts, k) ==
    IF Start(ts[k]) = PrevEnd(ts, k) THEN ts[k].span.fragment
    ELSE <<"\\">> \o ts[k].span.fragment

Returned == pc = "done" /\ out.ret = "Ok"

\* C1: when tokens returns, the spans of the tokens are consecutive ranges of the
\* source, separated by nothing but dropped escape backslashes, and the spans
\* with those backslashes put back are the source
C1_Coverage ==
    pc = "done" =>
        /\ out.ret = "Ok"
        /\ \A k \in 1..Len(out.tokens) :
              InSource(out.tokens[k].span) /\ Follows(out.tokens, k)
        /\ Flatten([k \in 1..Len(out.tokens) |-> Reinserted(out.tokens, k)]) = src

\* a run that dropped an escape backslash and emitted a directive
C1_Witness ==
    /\ Returned
    /\ \E k \in 1..Len(out.tokens) : Start(out.tokens[k]) = PrevEnd(out.tokens, k) + 1
    /\ \E k \in 1..Len(out.tokens) :
          out.tokens[k].kind = "InterpEscaped" /\ out.tokens[k].span.fragment[1] = "{"

\* C2: in every state of the loop, no Text token that was pushed is empty
C2_NoEmptyText ==
    \A k \in 1..Len(tokens) : tokens[k].kind = "Text" => SpanLen(tokens[k].span) >= 1

\* an escape at the very start of the input, an opener at the start of what
\* remains, and text at the end: each pushes a Text only if there is text
C2_Witness ==
    /\ Returned
    /\ Len(src) >= 3
    /\ EscapeBackslashAt(0)
    /\ \E k \in 1..Len(tokens) : tokens[k].kind = "Text"
    /\ \E k \in 1..Len(tokens) : tokens[k].kind # "Text"

\* C3: two Text tokens are adjacent only when the second begins right after a
\* dropped escape backslash; text that no escape interrupts is one Text token
C3_AdjacentText ==
    \A k \in 2..Len(tokens) :
        tokens[k - 1].kind = "Text" /\ tokens[k].kind = "Text" =>
            /\ Start(tokens[k]) = End(tokens[k - 1]) + 1
            /\ EscapeBackslashAt(End(tokens[k - 1]))

\* two adjacent Text tokens, the first of which holds a failed opener
C3_Witness ==
    /\ Returned
    /\ \E k \in 2..Len(tokens) :
          /\ tokens[k - 1].kind = "Text" /\ tokens[k].kind = "Text"
          /\ \E j \in 1..SpanLen(tokens[k - 1].span) : tokens[k - 1].span.fragment[j] = "{"

\* C4: tokens never returns an error, and returns Ok with an empty remainder
C4_Total ==
    /\ out.ret # "Err"
    /\ pc = "done" => out.ret = "Ok" /\ out.rest = Slice(src, Len(src), Len(src))

\* a run that took the bare-keyword branch and matched a token
C4_Witness ==
    /\ Returned
    /\ Len(warnings) > 0
    /\ \E k \in 1..Len(tokens) : tokens[k].kind \in {"LegacyEnd", "LegacyIf"}

\* s holds a bare `@key`, `@value` or `@index`
HasKeyword(s) == \E k \in 0..Len(s) - 1 : \E p \in 7..9 : tag(PATTERNS[p], s, k).ok

\* s begins with an opener
StartsWithOpener(s) == AltTags(Openers, 1, s, 0).ok

\* the source is raw with a backslash put before every opener
Escaped == src \in {Escape(raw, 0), EscapeOpeners(raw, 0)}

\* the text of every token of ts, in order
Contents(ts) == Flatten([k \in 1..Len(ts) |-> ts[k].span.fragment])

\* C5 as stated: tokens(escape(s)) is the one-element list [Text(s)]
C5_EscapeOneText ==
    pc = "done" /\ Escaped =>
        /\ out.ret = "Ok"
        /\ Len(out.tokens) = 1
        /\ out.tokens[1].kind = "Text"
        /\ out.tokens[1].span.fragment = raw

\* C5, amended: for s without a bare keyword, tokens(escape(s)) is a list of Text
\* tokens only, whose contents in order are s: one Text for the text before the
\* first escaped opener, if there is any, and one Text beginning at each escaped
\* opener
C5_EscapeAllText ==
    pc = "done" /\ Escaped /\ ~HasKeyword(raw) =>
        /\ out.ret = "Ok"
        /\ \A k \in 1..Len(out.tokens) : out.tokens[k].kind = "Text"
        /\ Contents(out.tokens) = raw
        /\ Len(out.tokens) = Len(src) - Len(raw)
                             + (IF raw # <<>> /\ ~StartsWithOpener(raw) THEN 1 ELSE 0)

\* an escaped source with text before its first opener: more than one Text
C5_Witness ==
    /\ Returned
    /\ Escaped
    /\ ~HasKeyword(raw)
    /\ src # raw
    /\ ~StartsWithOpener(raw)
    /\ Len(out.tokens) >= 2

\* an anchor, Some pattern of PATTERNS, begins at offset k of the source
AnchorAt(k) == \E p \in 1..Len(PATTERNS) : tag(PATTERNS[p], src, k).ok

\* k is where the leftmost anchor in input.slice(index..) begins
Leftmost(k) ==
    /\ pc = "loop"
    /\ k >= input + index
    /\ AnchorAt(k)
    /\ \A j \in (input + index)..(k - 1) : ~AnchorAt(j)

\* the opener that begins at offset k, if one does
OpenerAt(k) ==
    IF k < Len(src) /\ src[k + 1] = "{" THEN Brace1
    ELSE IF tag(CommentOpen, src, k).ok THEN CommentOpen
    ELSE <<>>

\* the scanner is at an unescaped opener, at offset k, that no recognizer matches
FailedOpenerAt(k) == Leftmost(k) /\ OpenerAt(k) # <<>> /\ ~token(src, k).ok

\* a failed opener is stepped over: no error, index one code point after the
\* opener, and nothing pushed
C6_Step ==
    \A k \in 0..Len(src) :
        FailedOpenerAt(k) =>
            /\ pc' = "loop"
            /\ out' = NotReturned
            /\ input' = input
            /\ index' = k - input + 1
            /\ is_char_boundary(src, input, index')
            /\ tokens' = tokens
            /\ warnings' = warnings

\* no token but a Text begins at an opener that was stepped over; once tokens
\* has returned, a Text token holds the opener
C6_InText ==
    \A k \in skipped :
        /\ \A j \in 1..Len(tokens) : tokens[j].kind # "Text" => Start(tokens[j]) # k
        /\ Returned =>
              \E j \in 1..Len(tokens) :
                  /\ tokens[j].kind = "Text"
                  /\ Start(tokens[j]) <= k
                  /\ k + Len(OpenerAt(k)) <= End(tokens[j])

\* `{{{ each /abc }}} mid {{{ end }}}` gives Text then End
C6_Example ==
    pc = "done" /\ src = ExampleFallThrough =>
        /\ out.ret = "Ok"
        /\ Len(out.tokens) = 2
        /\ out.tokens[1] = Text(Slice(src, 0, 22))
        /\ out.tokens[2] = [kind |-> "End", span |-> Slice(src, 22, 33)]

\* C6: at an unescaped opener that no recognizer matches, tokens reports no
\* error, steps index one code point on and pushes nothing; the opener ends up
\* inside a Text token, no other token begins at it, and a directive after it is
\* still recognized
C6_FallThrough == [][C6_Step]_vars /\ [](C6_InText) /\ [](C6_Example)

\* a returned run that stepped over an opener and recognized a directive after it
C6_Witness ==
    /\ Returned
    /\ \E k \in skipped : \E j \in 1..Len(tokens) :
          tokens[j].kind # "Text" /\ Start(tokens[j]) > k

\* the bare keyword that begins at offset k, if one does
KeywordAt(k) ==
    IF tag(PATTERNS[7], src, k).ok THEN PATTERNS[7]
    ELSE IF tag(PATTERNS[8], src, k).ok THEN PATTERNS[8]
    ELSE IF tag(PATTERNS[9], src, k).ok THEN PATTERNS[9]
    ELSE <<>>

\* the InterpEscaped a bare keyword with the span sp is rewritten to
Rewritten(sp) ==
    [kind |-> "InterpEscaped", span |-> sp,
     expr |-> [kind |-> "Path", span |-> sp, path |-> <<sp>>]]

\* at a bare keyword: the pending text, if any, and the rewritten keyword are
\* pushed, one warning is logged, and the scan goes on right after the keyword
RewriteStep(k, sp) ==
    /\ pc' = "loop"
    /\ out' = NotReturned
    /\ tokens' = (IF k > input THEN Append(tokens, Text(Slice(src, input, k))) ELSE tokens)
                 \o <<Rewritten(sp)>>
    /\ warnings' = Append(warnings, sp)
    /\ input' = SpanEnd(sp)
    /\ index' = 0

C10_Step ==
    /\ \A k \in 0..Len(src) :
          Leftmost(k) /\ KeywordAt(k) # <<>> =>
              RewriteStep(k, Slice(src, k, k + Len(KeywordAt(k))))
    /\ warnings' # warnings => \E k \in 0..Len(src) : Leftmost(k) /\ KeywordAt(k) # <<>>

\* the tokens of ts a bare keyword was rewritten to: their span is the keyword alone
RewrittenIn(ts) == SelectSeq(ts, LAMBDA tok : tok.kind = "InterpEscaped" /\ tok.span.fragment[1] = "@")

\* one warning for each rewritten keyword, in order, and each with its span
C10_Warnings ==
    /\ Len(warnings) = Len(RewrittenIn(tokens))
    /\ \A j \in 1..Len(warnings) : RewrittenIn(tokens)[j] = Rewritten(warnings[j])

\* C10: when the leftmost anchor is a bare keyword, tokens pushes the pending
\* text if it is not empty, then one InterpEscaped whose span is the keyword and
\* whose expr is the single-part Path of it, logs one warning, and scans on
\* after the keyword with index 0; it is no error, and a warning is logged on
\* this branch only, one for each such token
C10_Rewrite == [][C10_Step]_vars /\ [](C10_Warnings)

\* a returned run that rewrote a keyword after pending text and scanned on
C10_Witness ==
    /\ Returned
    /\ Len(warnings) >= 1
    /\ \E j \in 2..(Len(tokens) - 1) :
          /\ tokens[j] = Rewritten(warnings[1])
          /\ tokens[j - 1].kind = "Text"

----------------------------------------------------------------------------
(* Properties of the token recognizers and of the expression parsers *)

\* a parser was called, and it was fn
Called(fn) == pc = "done" /\ out.ret = "called" /\ out.fn = fn

\* expression accepts e, all of it
Accepted(e) == Match(expression(e, 0), LAMBDA r : r.rest = Len(e), FALSE)

\* the expression of a token
ExprOf(tok) == IF tok.kind \in {"InterpEscaped", "InterpRaw"} THEN tok.expr ELSE tok.subject

\* tok is the token of that kind for all of src, and what it holds is the
\* expression that begins at offset off, after whitespace
Directive(tok, kind, off) ==
    /\ tok.kind = kind
    /\ TokenSpan(tok) = Slice(src, 0, Len(src))
    /\ Match(expression(src, multispace0(src, off)), LAMBDA e : ExprOf(tok) = e.out, FALSE)
    /\ ExprOf(tok).kind = expression(raw, 0).out.kind

\* src is the directive of the form, made of the expression raw, and res is what
\* token or tokens gave for it
Dispatched(form, kind) ==
    \A w \in Spaces :
        src = Wrap(form, w, raw) =>
            /\ out.fn = "token" =>
                  /\ out.res.ok
                  /\ out.res.rest = Len(src)
                  /\ Directive(out.res.out, kind, Len(Wrap(form, w, <<>>)) - Len(w) - Len(form.close))
            /\ out.fn = "tokens" =>
                  /\ out.res.ret = "Ok"
                  /\ Len(out.res.tokens) = 1
                  /\ Directive(out.res.tokens[1], kind,
                               Len(Wrap(form, w, <<>>)) - Len(w) - Len(form.close))

\* C7: for an expression e that expression accepts, token and tokens give
\* InterpRaw for `{{` ws e ws `}}`, InterpEscaped for `{` ws e ws `}` and If for
\* `{{{` ws `if` ws e ws `}}}`, with the span of the whole directive; and
\* interp_escaped fails on every input that begins with `{{`
C7_Dispatch ==
    /\ (Called("token") \/ Called("tokens")) /\ Accepted(raw) =>
          /\ Dispatched(RawForm, "InterpRaw")
          /\ Dispatched(EscapedForm, "InterpEscaped")
          /\ Dispatched(IfForm, "If")
    /\ Called("interp_escaped") /\ tag(Brace2, src, 0).ok => ~out.res.ok

\* tokens called on `{{ e }}` for a helper e
C7_Witness ==
    /\ Called("tokens")
    /\ Accepted(raw)
    /\ src = Wrap(RawForm, Sp, raw)
    /\ Len(out.res.tokens) = 1
    /\ out.res.tokens[1].kind = "InterpRaw"
    /\ out.res.tokens[1].expr.kind = "Helper"

\* the subject legacy_if parses in src: the expression after `<!--` ws `IF` ws
ParsedSubject ==
    Then(tag(CommentOpen, src, 0), LAMBDA o :
    Then(ws_tag(LegacyIfWord, src, o.rest), LAMBDA w :
    ws_expression(src, w.rest)))

\* the Path of a keyword that is not in the source, with an empty span at offset
Implicit(keyword, offset) ==
    [kind |-> "Path",
     span |-> [offset |-> offset, fragment |-> <<>>],
     path |-> <<[offset |-> 0, fragment |-> keyword]>>]

\* tok is the LegacyIf of the legacy helper subj, with `@root` before its args
RootInserted(tok, subj) ==
    /\ tok.kind = "LegacyIf"
    /\ tok.subject.kind = "LegacyHelper"
    /\ tok.subject.span = subj.span
    /\ tok.subject.name = subj.name
    /\ tok.subject.args =
          <<Implicit(<<"@", "r", "o", "o", "t">>,
                     IF Len(subj.args) >= 1 THEN subj.args[1].span.offset
                     ELSE SpanEnd(subj.span))>> \o subj.args

\* C8: when legacy_if succeeds and the subject it parsed is a LegacyHelper with
\* the args a1..an, the subject of the LegacyIf is that LegacyHelper with the
\* args @root, a1..an; the span of @root is empty, and at the start of a1, or at
\* the end of the subject if n = 0
C8_ImplicitRoot ==
    Called("legacy_if") /\ out.res.ok /\ ParsedSubject.out.kind = "LegacyHelper" =>
        RootInserted(out.res.out, ParsedSubject.out)

\* legacy_if on a legacy helper with two arguments in the source
C8_Witness ==
    /\ Called("legacy_if")
    /\ out.res.ok
    /\ out.res.out.subject.kind = "LegacyHelper"
    /\ Len(out.res.out.subject.args) = 3
    /\ out.res.out.subject.args[2].span.offset > out.res.out.subject.span.offset
    /\ out.res.out.subject.args[1].span.offset = out.res.out.subject.args[2].span.offset

\* the offset after the name of the legacy helper that src begins with
NameEnd == identifier(src, Len(<<"f", "u", "n", "c", "t", "i", "o", "n", ".">>)).rest

\* args, if not empty, ends at offset e, and each of args is what expression
\* parses after the whitespace and the comma that follow the argument before it,
\* the first of them from offset i on
ParsedList(args, i, e) ==
    /\ \A j \in 1..Len(args) :
          /\ Match(ws_tag(<<",">>, src, IF j = 1 THEN i ELSE SpanEnd(args[j - 1].span)),
                   LAMBDA comma : args[j].span.offset = comma.rest, FALSE)
          /\ expression(src, args[j].span.offset) = Ok(SpanEnd(args[j].span), args[j])
          /\ args[j] # Implicit(<<"@", "v", "a", "l", "u", "e">>, args[j].span.offset)
    /\ Len(args) > 0 => e = SpanEnd(args[Len(args)].span)
    /\ Len(args) = 0 => e = ws_tag(<<",">>, src, i).rest

\* h is the legacy helper whose name ends at offset i
ValueInserted(h, i) ==
    /\ h.kind = "LegacyHelper"
    /\ h.span.offset = 0
    /\ h.name = Slice(src, 9, i)
    /\ IF ws_tag(<<",">>, src, i).ok
       THEN ParsedList(h.args, i, SpanEnd(h.span))
       ELSE /\ h.args = <<Implicit(<<"@", "v", "a", "l", "u", "e">>, SpanEnd(h.span))>>
            /\ SpanEnd(h.span) = i

\* C9: when legacy_helper succeeds, the args of the LegacyHelper are the single
\* Path @value, with an empty span at the end of the span of the helper, exactly
\* when no whitespace and comma follow the name; when they do, the args are the
\* expressions parsed after it, and no @value is added
C9_ImplicitValue ==
    Called("legacy_helper") /\ out.res.ok => ValueInserted(out.res.out, NameEnd)

\* legacy_helper on a name that no comma follows, with text after the name
C9_Witness ==
    /\ Called("legacy_helper")
    /\ out.res.ok
    /\ ~ws_tag(<<",">>, src, NameEnd).ok
    /\ Len(out.res.out.args) = 1
    /\ out.res.rest < Len(src)

----------------------------------------------------------------------------
(* Properties of path and identifier *)

\* the keyword src begins with, if it begins with one
KeywordOf(s) ==
    IF \E k \in 1..Len(Keywords) : tag(Keywords[k], s, 0).ok
    THEN Keywords[CHOOSE k \in 1..Len(Keywords) : tag(Keywords[k], s, 0).ok]
    ELSE <<>>

\* C11: on an input that begins with one of the six keywords, path returns the
\* Path whose only part is the keyword, with the span of the keyword, and leaves
\* all that follows the keyword, a dot or identifier characters too
C11_KeywordPath ==
    Called("path") /\ KeywordOf(src) # <<>> =>
        out.res = Ok(Len(KeywordOf(src)),
                     [kind |-> "Path",
                      span |-> Slice(src, 0, Len(KeywordOf(src))),
                      path |-> <<Slice(src, 0, Len(KeywordOf(src)))>>])

\* path on `@value.a`, which leaves `.a`
C11_Witness ==
    /\ Called("path")
    /\ src = <<"@", "v", "a", "l", "u", "e", ".", "a">>
    /\ out.res.ok
    /\ out.res.rest = 6

\* the characters of an identifier
IdentChars == Upper \cup Lower \cup Digit \cup {"_", "-", ":", "@"}

\* the length of the longest run of identifier characters that s begins with
MaximalRun(s) ==
    CHOOSE n \in 0..Len(s) :
        /\ \A j \in 1..n : s[j] \in IdentChars
        /\ n < Len(s) => s[n + 1] \notin IdentChars

\* the run of n characters ends with `--` and `>` follows it
BacksUp(s, n) ==
    /\ n >= 2
    /\ s[n - 1] = "-"
    /\ s[n] = "-"
    /\ n < Len(s)
    /\ s[n + 1] = ">"

\* what identifier returns for a maximal run of n characters
Identified(res, n) ==
    IF n = 0 THEN ~res.ok
    ELSE IF BacksUp(src, n) THEN res = Ok(n - 2, Slice(src, 0, n - 2))
    ELSE res = Ok(n, Slice(src, 0, n))

\* `<!-- IF cond-->` is the LegacyIf of the Path cond
BackupExample ==
    Called("legacy_if") /\ src = ExampleBackup =>
        /\ out.res.ok
        /\ out.res.rest = Len(src)
        /\ out.res.out.kind = "LegacyIf"
        /\ out.res.out.subject = [kind |-> "Path",
                                  span |-> Slice(src, 8, 12),
                                  path |-> <<Slice(src, 8, 12)>>]

\* C12: identifier takes the longest run of letters, digits and `_ - : @`; when
\* the run ends with `--` and `>` follows, it returns the run without these two
\* characters and leaves the input from `--` on; otherwise it returns the run.
\* No identifier it returns ends with `--` with `>` right after it, and
\* the subject of `<!-- IF cond-->` is the Path cond
C12_Backup ==
    /\ Called("identifier") =>
          /\ Identified(out.res, MaximalRun(src))
          /\ out.res.ok => ~BacksUp(src, out.res.rest)
    /\ BackupExample

\* identifier on a run that ends with `--` before `>`, with a name before it
C12_Witness ==
    /\ Called("identifier")
    /\ BacksUp(src, MaximalRun(src))
    /\ out.res.ok
    /\ out.res.rest = 1

\* a Path that path returned has a span that is not empty, and parts that are
\* scope markers or identifiers of one character at least
NonEmptyPath(e) ==
    /\ e.kind = "Path"
    /\ SpanLen(e.span) >= 1
    /\ Len(e.path) >= 1
    /\ \A j \in 1..Len(e.path) : SpanLen(e.path[j]) >= 1

\* C13 as stated: path succeeds only on a keyword or, after scope markers, an
\* identifier of one character at least; the span of the Path and every part of
\* it are not empty; expression fails when path has nothing to recognize
C13_NonEmptyPath ==
    /\ Called("path") /\ out.res.ok => NonEmptyPath(out.res.out)
    /\ Called("expression") /\ out.res.ok /\ out.res.out.kind = "Path" =>
          NonEmptyPath(out.res.out)

----------------------------------------------------------------------------
(* Properties of the expression trees *)

RECURSIVE Nested(_)
\* e and the expressions nested in it: what is negated, and the arguments
Nested(e) ==
    {e} \cup
    (IF e.kind = "Negative" THEN Nested(e.expr)
     ELSE IF e.kind \in {"Helper", "LegacyHelper"}
     THEN UNION { Nested(e.args[j]) : j \in 1..Len(e.args) }
     ELSE {})

\* the expressions of the tokens of ts that hold one
ExprsOf(ts) ==
    UNION { Nested(ExprOf(ts[j])) :
            j \in { k \in 1..Len(ts) : ts[k].kind \notin {"Text", "Else", "End",
                                                           "LegacyElse", "LegacyEnd"} } }

\* the text that was parsed by the call
Parsed == IF out.fn = "subject" THEN raw ELSE src

\* the expressions the call produced
Produced ==
    IF pc # "done" \/ out.ret # "called" THEN {}
    ELSE IF out.fn = "tokens" THEN ExprsOf(out.res.tokens)
    ELSE IF ~out.res.ok THEN {}
    ELSE IF out.fn \in {"subject", "expression"} THEN Nested(out.res.out)
    ELSE ExprsOf(<<out.res.out>>)

\* expression, applied to the span of e, takes all of it and returns e
RoundTrips(e) ==
    expression(SubSeq(Parsed, 1, SpanEnd(e.span)), e.span.offset) = Ok(SpanEnd(e.span), e)

\* C14 as stated: every expression the parser produced is what expression
\* returns on its span
C14_RoundTripAll == \A e \in Produced : RoundTrips(e)

\* e is the Path of a keyword that is not in the source: an implicit argument
Synthetic(e, keyword) ==
    /\ e.kind = "Path"
    /\ SpanLen(e.span) = 0
    /\ e.path = <<new_extra(keyword)>>

IsImplicit(e) ==
    \/ Synthetic(e, <<"@", "r", "o", "o", "t">>)
    \/ Synthetic(e, <<"@", "v", "a", "l", "u", "e">>)

\* a span of e itself is empty: its own, its name, or a part of its path
HasEmptySpan(e) ==
    \/ SpanLen(e.span) = 0
    \/ e.kind \in {"Helper", "LegacyHelper"} /\ SpanLen(e.name) = 0
    \/ e.kind = "Path" /\ \E j \in 1..Len(e.path) : SpanLen(e.path[j]) = 0

\* e is as expression parses it from text that is all there: no implicit @root
\* in it, and nothing empty but an implicit @value
AsParsed(e) ==
    \A n \in Nested(e) :
        /\ ~Synthetic(n, <<"@", "r", "o", "o", "t">>)
        /\ HasEmptySpan(n) => Synthetic(n, <<"@", "v", "a", "l", "u", "e">>)

\* C14, amended: every expression the parser produced, other than an implicit
\* @root or @value argument, that holds no implicit @root and no empty
\* identifier, is what expression returns on its span, all of which it takes
C14_RoundTrip == \A e \in Produced : ~IsImplicit(e) /\ AsParsed(e) => RoundTrips(e)

\* a token whose expression negates a legacy helper with an argument
C14_Witness ==
    /\ Called("token")
    /\ out.res.ok
    /\ ExprOf(out.res.out).kind = "Negative"
    /\ ExprOf(out.res.out).expr.kind = "LegacyHelper"
    /\ Len(ExprOf(out.res.out).expr.args) = 1
    /\ ~IsImplicit(ExprOf(out.res.out).expr.args[1])
    /\ \A e \in Produced : AsParsed(e)

\* the span inner is a sub-range of the span outer
Within(inner, outer) ==
    /\ outer.offset <= inner.offset
    /\ SpanEnd(inner) <= SpanEnd(outer)

\* the spans e holds directly: its name, its path parts, what it negates, its
\* arguments
SpansIn(e) ==
    IF e.kind = "Negative" THEN {e.expr.span}
    ELSE IF e.kind = "Path" THEN { e.path[j] : j \in 1..Len(e.path) }
    ELSE IF e.kind \in {"Helper", "LegacyHelper"}
    THEN {e.name} \cup { e.args[j].span : j \in 1..Len(e.args) }
    ELSE {}

\* the expressions of the tokens that the call returned
Emitted ==
    IF Called("tokens") THEN ExprsOf(out.res.tokens) ELSE {}

\* every token tokens returned holds its expression within its span
TopWithin ==
    Called("tokens") =>
        \A j \in 1..Len(out.res.tokens) :
            out.res.tokens[j].kind \in {"InterpEscaped", "InterpRaw", "If", "LegacyIf"} =>
                Within(ExprOf(out.res.tokens[j]).span, TokenSpan(out.res.tokens[j]))

\* C15 as stated: every span in the expression tree of an emitted token, those
\* of the implicit @root and @value and of their path parts too, is within the
\* span of the expression that holds it, and the expression within the token
C15_ContainedAll ==
    /\ TopWithin
    /\ \A e \in Emitted : \A sp \in SpansIn(e) : Within(sp, e.span)

\* C15, amended: every span in the expression tree of an emitted token is
\* within the span of the expression that holds it, and the expression within
\* the token; the implicit @root and @value are within their helper, but their
\* path part, the keyword, is a span of its own and not within their empty span
C15_Contained ==
    /\ TopWithin
    /\ \A e \in Emitted :
          IF IsImplicit(e)
          THEN \A sp \in SpansIn(e) : sp.offset = 0 /\ SpanLen(sp) > 0 /\ ~Within(sp, e.span)
          ELSE \A sp \in SpansIn(e) : Within(sp, e.span)

\* tokens on a legacy IF whose helper has an argument in the source
C15_Witness ==
    /\ Called("tokens")
    /\ Len(out.res.tokens) = 1
    /\ out.res.tokens[1].kind = "LegacyIf"
    /\ out.res.tokens[1].subject.kind = "LegacyHelper"
    /\ Len(out.res.tokens[1].subject.args) = 2
    /\ SpanLen(out.res.tokens[1].subject.args[2].span) > 0

----------------------------------------------------------------------------
(* Properties of legacy_end *)

\* the number of characters at the start of x that ws skips
LeadingWs(x) == RunEnd(x, 0, Whitespace)

RECURSIVE LeadingTrim(_)
\* the number of characters at the start of x that str::trim_start removes
LeadingTrim(x) ==
    IF Len(x) > 0 /\ x[1] \in TrimSet
    THEN 1 + LeadingTrim(Tail(x))
    ELSE IF Len(x) > 1 /\ SubSeq(x, 1, 2) = Nbsp
    THEN 2 + LeadingTrim(SubSeq(x, 3, Len(x)))
    ELSE 0

\* x contains t
Contains(t, x) == \E k \in 0..(Len(x) - Len(t)) : SubSeq(x, k + 1, k + Len(t)) = t

\* END with IF right after it reads as ENDIF
ReadsENDIF(word, w2, x) ==
    word = END /\ w2 = <<>> /\ Len(x) >= 2 /\ SubSeq(x, 1, 2) = LegacyIfWord

\* the word that is read, ENDIF before END, and the text X after it
WordRead(word, w2, x) == IF ReadsENDIF(word, w2, x) THEN ENDIF ELSE word

TextRead(word, w2, x) == IF ReadsENDIF(word, w2, x) THEN SubSeq(x, 3, Len(x)) ELSE x

\* the LegacyEnd of a directive whose text x begins at offset start: the span
\* goes through the `-->` after x, and subject_raw is x without its first lead
\* characters and without the whitespace at its end
LegacyEndOf(start, x, lead) ==
    Ok(start + Len(x) + Len(CommentClose),
       [kind        |-> "LegacyEnd",
        span        |-> Slice(src, 0, start + Len(x) + Len(CommentClose)),
        subject_raw |-> [offset   |-> start + lead,
                         fragment |-> SubSeq(x, lead + 1,
                                             lead + TrimmedLen(SubSeq(x, lead + 1, Len(x))))]])

\* what legacy_end, and token, return for `<!--` w1 word w2 raw `-->` tail when
\* raw has no `-->`, the whitespace at the start of the text being what
\* str::trim_start removes (unicode) or what ws skips
EndResult(unicode) ==
    \A w1 \in Spaces, word \in {ENDIF, END}, w2 \in Spaces, tail \in Tails :
        /\ Called("legacy_end") \/ Called("token")
        /\ src = EndText(w1, word, w2, raw, tail)
        /\ ~Contains(CommentClose, raw)
        => out.res = LegacyEndOf(Len(CommentOpen) + Len(w1) + Len(WordRead(word, w2, raw))
                                    + Len(w2),
                                 TextRead(word, w2, raw),
                                 IF unicode THEN LeadingTrim(TextRead(word, w2, raw))
                                            ELSE LeadingWs(TextRead(word, w2, raw)))

\* C16, as stated: legacy_end returns one LegacyEnd whose span goes from the
\* opener through the first `-->` and whose subject_raw is X without the
\* whitespace at its start and at its end, ENDIF being read before END
C16_TrimBoth == EndResult(TRUE)

\* C16: legacy_end returns one LegacyEnd whose span goes from the opener through
\* the first `-->` and whose subject_raw is X, verbatim, without the space, tab,
\* CR and LF at its start and without the White_Space characters at its end,
\* ENDIF being read before END
C16_LegacyEnd == EndResult(FALSE)

\* `<!-- ENDIF  x( -->` then a second `-->`: subject_raw is `x(`
C16_Witness ==
    /\ Called("legacy_end")
    /\ raw = <<" ", "x", "(">>
    /\ src = EndText(Sp, ENDIF, Sp, raw, Sp \o CommentClose)
    /\ out.res.ok
    /\ out.res.rest = Len(src) - 4
    /\ out.res.out.subject_raw.fragment = <<"x", "(">>

----------------------------------------------------------------------------
(* Properties of the alternation of expression *)

\* what the five parsers return for s, in the order of the alternation
Alternatives(s) ==
    << negative(s, 0), legacy_helper(s, 0), helper(s, 0), string_literal(s, 0), path(s, 0) >>

RECURSIVE FirstOk(_)
\* the first result of rs that is not a failure, and a failure if there is none
FirstOk(rs) ==
    IF rs = <<>> THEN Fail
    ELSE IF Head(rs).ok THEN Head(rs)
    ELSE FirstOk(Tail(rs))

FunctionDot == <<"f", "u", "n", "c", "t", "i", "o", "n", ".">>

\* s begins with `function.` and an identifier
LegacyCall(s) ==
    /\ Len(s) >= Len(FunctionDot)
    /\ SubSeq(s, 1, Len(FunctionDot)) = FunctionDot
    /\ identifier(s, Len(FunctionDot)).ok

\* s begins with an identifier and `(`
CallOpened(s) ==
    Match(identifier(s, 0), LAMBDA name : name.rest < Len(s) /\ s[name.rest + 1] = "(", FALSE)

\* res is an expression of that kind
IsKind(res, kind) == res.ok /\ res.out.kind = kind

\* expression returns what the first parser that succeeds returns, and what
\* begins with `function.` and an identifier is a LegacyHelper
Ordered ==
    Called("expression") =>
        /\ out.res = FirstOk(Alternatives(src))
        /\ LegacyCall(src) => IsKind(out.res, "LegacyHelper")

\* C17, as stated: expression returns what the first of negative, legacy_helper,
\* helper, string_literal, path that succeeds returns; what begins with
\* `function.` and an identifier is a LegacyHelper, and what begins with an
\* identifier and `(` is a Helper
C17_OpenedIsHelper ==
    /\ Ordered
    /\ Called("expression") /\ CallOpened(src) => IsKind(out.res, "Helper")

\* C17: expression returns what the first of negative, legacy_helper, helper,
\* string_literal, path that succeeds returns; what begins with `function.` and
\* an identifier is a LegacyHelper; what begins with an identifier and `(` is a
\* Helper when helper accepts the call, and otherwise the one-segment Path that
\* path returns, the `(` left unread
C17_Ordered ==
    /\ Ordered
    /\ Called("expression") /\ CallOpened(src) =>
           IF helper(src, 0).ok
           THEN IsKind(out.res, "Helper")
           ELSE /\ IsKind(out.res, "Path")
                /\ out.res = path(src, 0)
                /\ out.res.rest <= identifier(src, 0).rest
                /\ Len(out.res.out.path) = 1

\* `f(a)` is the Helper f, though path accepts its `f`
C17_Witness ==
    /\ Called("expression")
    /\ src = <<"f", "(", "a", ")">>
    /\ path(src, 0).ok
    /\ IsKind(out.res, "Helper")
    /\ out.res.rest = Len(src)

----------------------------------------------------------------------------
(* Properties of the escape step of tokens() *)

\* the escaped opener that begins at offset k, if one does: the first of the
\* patterns 0..=3 that matches there
EscapedOpenerAt(k) ==
    IF tag(PATTERNS[1], src, k).ok THEN PATTERNS[1]
    ELSE IF tag(PATTERNS[2], src, k).ok THEN PATTERNS[2]
    ELSE IF tag(PATTERNS[3], src, k).ok THEN PATTERNS[3]
    ELSE IF tag(PATTERNS[4], src, k).ok THEN PATTERNS[4]
    ELSE <<>>

\* at an escaped opener: the pending text before the backslash is pushed, if
\* there is any, the backslash alone is dropped, and index is just past the
\* characters of the opener
C18_Step ==
    \A k \in 0..Len(src) :
        Leftmost(k) /\ EscapedOpenerAt(k) # <<>> =>
            /\ pc' = "loop"
            /\ out' = NotReturned
            /\ tokens' = IF k > input THEN Append(tokens, Text(Slice(src, input, k)))
                                      ELSE tokens
            /\ input' = k + 1
            /\ index' = Len(EscapedOpenerAt(k)) - 1
            /\ input' + index' = k + Len(EscapedOpenerAt(k))
            /\ warnings' = warnings

\* no token but a Text begins at a byte of an escaped opener whose backslash was
\* dropped; once tokens has returned, a Text token holds the characters of the
\* opener
C18_InText ==
    \A k \in escaped :
        /\ \A j \in 1..Len(tokens) :
              tokens[j].kind # "Text" =>
                  ~(k <= Start(tokens[j]) /\ Start(tokens[j]) < k + Len(EscapedOpenerAt(k)))
        /\ Returned =>
              \E j \in 1..Len(tokens) :
                  /\ tokens[j].kind = "Text"
                  /\ Start(tokens[j]) = k + 1
                  /\ k + Len(EscapedOpenerAt(k)) <= End(tokens[j])

\* `before \{{{ each abc }}} mid \{{{ end }}}` gives three Text tokens
C18_Example ==
    pc = "done" /\ src = EscapeOpeners(ExampleBlock, 0) =>
        /\ out.ret = "Ok"
        /\ out.tokens = << Text(Slice(src, 0, 7)),
                           Text(Slice(src, 8, 29)),
                           Text(Slice(src, 30, Len(src))) >>

\* C18: when the leftmost anchor is an escaped opener, tokens pushes the pending
\* text before the backslash, drops the backslash alone and sets index just past
\* the characters of the opener; no token but a Text begins at a byte of the
\* escaped opener, and its characters are in the Text token that follows
C18_EscapeStep == [][C18_Step]_vars /\ [](C18_InText) /\ [](C18_Example)

\* a returned run that dropped the backslash of an escaped opener after some
\* text, with an unescaped opener right after the backslash
C18_Witness ==
    /\ Returned
    /\ \E k \in escaped :
          /\ k > 0
          /\ AnchorAt(k + 1)
          /\ \E j \in 1..Len(tokens) : tokens[j].kind = "Text" /\ End(tokens[j]) = k

----------------------------------------------------------------------------
(* Termination of tokens() *)

\* input.len() - index
Remaining == Len(src) - input - index

\* index is within input, and input within the source
C19_Bounds ==
    /\ 0 <= input
    /\ input <= Len(src)
    /\ 0 <= index
    /\ index <= Len(src) - input

\* an iteration of the loop goes on to the loop condition with less remaining
C19_Decreases ==
    InLoop =>
        /\ pc' = "loop"
        /\ Remaining' < Remaining
        /\ Remaining' >= 0

\* C19: tokens leaves its loop and returns for every source text; index stays
\* between 0 and input.len(), and every iteration of the loop, whichever branch
\* it takes, makes input.len() - index smaller
C19_Terminates == [](C19_Bounds) /\ [][C19_Decreases]_vars /\ <>(pc = "done")

\* a returned run that dropped an escape backslash and recognized a directive
C19_Witness ==
    /\ Returned
    /\ escaped # {}
    /\ Len(tokens) >= 3
    /\ \E j \in 1..Len(tokens) : tokens[j].kind # "Text"
    /\ Remaining = 0

----------------------------------------------------------------------------
(* Properties of the `@root` argument of legacy_if *)

\* the subject that is parsed in src: the expression after `<!--` ws word ws
SubjectAfter(word) ==
    Then(tag(CommentOpen, src, 0), LAMBDA o :
    Then(ws_tag(word, src, o.rest), LAMBDA w :
    ws_expression(src, w.rest)))

Root == <<"@", "r", "o", "o", "t">>

\* the implicit `@root` arguments in e, at any depth
Roots(e) == { x \in Nested(e) : Synthetic(x, Root) }

\* subject is the legacy helper subj with `@root` put before its arguments, and
\* nothing else of it changed
RootFirst(subject, subj) ==
    /\ subject.kind = "LegacyHelper"
    /\ subject.span = subj.span
    /\ subject.name = subj.name
    /\ Len(subject.args) = Len(subj.args) + 1
    /\ Synthetic(subject.args[1], Root)
    /\ SubSeq(subject.args, 2, Len(subject.args)) = subj.args
    /\ Roots(subject) = {subject.args[1]}

\* the token res holds the subject that was parsed after the word, changed only
\* if it is a LegacyHelper and the word is IF
TopLevelOnly(res, word) ==
    Match(SubjectAfter(word),
          LAMBDA e :
              /\ Roots(e.out) = {}
              /\ IF e.out.kind = "LegacyHelper" /\ word = LegacyIfWord
                 THEN RootFirst(res.out.subject, e.out)
                 ELSE res.out.subject = e.out,
          FALSE)

\* C20: legacy_if changes the subject it parsed only when that subject is itself
\* a LegacyHelper, which gets `@root` as its first argument; a LegacyHelper that
\* is negated or an argument of a helper keeps its arguments, every other subject
\* is returned as parsed, and legacy_begin returns every subject as parsed
C20_TopLevel ==
    /\ Called("legacy_if") /\ out.res.ok => TopLevelOnly(out.res, LegacyIfWord)
    /\ Called("legacy_begin") /\ out.res.ok => TopLevelOnly(out.res, BeginWord)
    /\ Called("token") /\ out.res.ok =>
          TopLevelOnly(out.res, IF out.res.out.kind = "LegacyIf" THEN LegacyIfWord
                                                                 ELSE BeginWord)

\* `<!-- IF !function.f,a -->`: the negated legacy helper has the one argument a
C20_Witness ==
    /\ Called("legacy_if")
    /\ raw = <<"!">> \o FunctionDot \o <<"f", ",", "a">>
    /\ out.res.ok
    /\ out.res.out.subject.kind = "Negative"
    /\ out.res.out.subject.expr.kind = "LegacyHelper"
    /\ Len(out.res.out.subject.expr.args) = 1
    /\ out.res.out.subject.expr.args[1].kind = "Path"
    /\ out.res.out.subject.expr.args[1].path = <<Slice(src, SpanEnd(out.res.out.subject.expr.name) + 1, SpanEnd(out.res.out.subject.expr.name) + 2)>>

====
